---- MODULE Spec2Model ----
(***************************************************************************)
(* Model of app_reqV.py: the reconciliation of the historical request log  *)
(* (consolidado) with the current term's requests (requerimentos).         *)
(*                                                                         *)
(* A Python str is a sequence of one-character strings, so that lower(),   *)
(* strip(), upper() and substring search are computed, not assumed.        *)
(* A DataFrame is a record [none, columns, rows]: columns is the sequence  *)
(* of column labels, rows the sequence of rows, every row a sequence of    *)
(* cells aligned with columns.  A cell is [k, t, s]: k = "num" is a number *)
(* of t tenths (t = 15 is 1.5), k = "str" is the text s, k = "null" is a   *)
(* blank cell (None/NaN).                                                  *)
(***************************************************************************)
EXTENDS Integers, Sequences, FiniteSets, TLC

VARIABLES
    pc,                   \* position of the script inside run_app
    file_consolidado,     \* st.file_uploader result, historical log
    file_requerimentos,   \* st.file_uploader result, current term
    df_consolidado,       \* run_app local
    df_requerimentos,     \* run_app local
    alunos_com_historico, \* run_app local: the join result
    nusps_com_historico,  \* run_app local: set of joined identifiers
    df_novos,             \* run_app local
    overview,             \* values computed by display_overview
    historico_formatado,  \* parecer_formatado cells of display_students_with_history
    ui,                   \* st.error / st.warning / st.info output, in order
    raised,               \* the exception travelling to run_app's except clauses
    calls,                \* functions called so far by run_app, in order
    session_state,        \* st.session_state of the browser session
    secrets,              \* st.secrets of the deployment
    submission            \* the login form's input to the current script execution

vars == <<pc, file_consolidado, file_requerimentos, df_consolidado, df_requerimentos,
          alunos_com_historico, nusps_com_historico, df_novos, overview,
          historico_formatado, ui, raised, calls, session_state, secrets, submission>>

\* what run_app and the functions it calls never touch
session == <<session_state, secrets, submission>>

-----------------------------------------------------------------------------
(* Bounds of the model *)

\* rows per uploaded file in the pipeline specification
MaxRows == 2
\* identifiers 1..MaxId appear in the pipeline specification
MaxId == 2
\* rows of the dataset handed to preprocess_data in SpecClean
MaxCleanRows == 3
\* historical rows in SpecOverview
MaxOverviewRows == 3

-----------------------------------------------------------------------------
(* Python str *)

Range(s) == {s[i] : i \in DOMAIN s}

SetMin(S) == CHOOSE x \in S : \A y \in S : x <= y

SetMax(S) == CHOOSE x \in S : \A y \in S : x >= y

UpperLetters ==
    <<"A", "B", "C", "D", "E", "F", "G", "H", "I", "J", "K", "L", "M", "N", "O",
      "P", "Q", "R", "S", "T", "U", "V", "W", "X", "Y", "Z", "Ú", "Ç", "Ã">>

LowerLetters ==
    <<"a", "b", "c", "d", "e", "f", "g", "h", "i", "j", "k", "l", "m", "n", "o",
      "p", "q", "r", "s", "t", "u", "v", "w", "x", "y", "z", "ú", "ç", "ã">>

LowerChar(c) ==
    IF \E i \in DOMAIN UpperLetters : UpperLetters[i] = c
    THEN LowerLetters[CHOOSE i \in DOMAIN UpperLetters : UpperLetters[i] = c]
    ELSE c

UpperChar(c) ==
    IF \E i \in DOMAIN LowerLetters : LowerLetters[i] = c
    THEN UpperLetters[CHOOSE i \in DOMAIN LowerLetters : LowerLetters[i] = c]
    ELSE c

\* str.lower()
Lower(s) == [i \in 1..Len(s) |-> LowerChar(s[i])]

\* str.upper()
Upper(s) == [i \in 1..Len(s) |-> UpperChar(s[i])]

Whitespace == {" ", "\t"}

\* str.strip()
Strip(s) ==
    LET solid == {i \in 1..Len(s) : s[i] \notin Whitespace}
    IN  IF solid = {} THEN << >> ELSE SubSeq(s, SetMin(solid), SetMax(solid))

\* sub in s
Contains(s, sub) ==
    \E i \in 0..(Len(s) - Len(sub)) : SubSeq(s, i + 1, i + Len(sub)) = sub

DigitChars == <<"0", "1", "2", "3", "4", "5", "6", "7", "8", "9">>

IsDigits(s) == Len(s) > 0 /\ \A i \in 1..Len(s) : s[i] \in Range(DigitChars)

DigitVal(c) == (CHOOSE i \in DOMAIN DigitChars : DigitChars[i] = c) - 1

RECURSIVE DigitsVal(_)
DigitsVal(s) ==
    IF Len(s) = 0 THEN 0
    ELSE 10 * DigitsVal(SubSeq(s, 1, Len(s) - 1)) + DigitVal(s[Len(s)])

RECURSIVE NatText(_)
NatText(n) ==
    IF n < 10 THEN <<DigitChars[n + 1]>>
    ELSE NatText(n \div 10) \o <<DigitChars[(n % 10) + 1]>>

-----------------------------------------------------------------------------
(* Cells and DataFrames *)

NaN == [k |-> "null", t |-> 0, s |-> << >>]

Num(t) == [k |-> "num", t |-> t, s |-> << >>]

Txt(s) == [k |-> "str", t |-> 0, s |-> s]

\* pd.isna(value)
IsNa(cell) == cell.k = "null"

\* str(value) of a cell that is not blank: a number prints its integer part and,
\* unless it is integral, its tenth
StrOf(cell) ==
    IF cell.k = "str" THEN cell.s
    ELSE LET a == IF cell.t < 0 THEN -cell.t ELSE cell.t
             sign == IF cell.t < 0 THEN <<"-">> ELSE << >>
         IN  IF a % 10 = 0 THEN sign \o NatText(a \div 10)
             ELSE sign \o NatText(a \div 10) \o <<".">> \o NatText(a % 10)

\* object[i] tells whether column i has dtype object; a column read with a numeric
\* dtype holds numbers and NaN only
DataFrame(columns, object, rows) ==
    [none |-> FALSE, columns |-> columns, object |-> object, rows |-> rows]

None == [none |-> TRUE, columns |-> << >>, object |-> << >>, rows |-> << >>]

\* the dtypes pd.read_excel / pd.read_csv infer: a column with a text cell, or with
\* no cell at all, is object; a column of numbers and blanks is numeric
read_dtypes(columns, rows) ==
    [i \in 1..Len(columns) |-> rows = << >> \/ \E r \in 1..Len(rows) : rows[r][i].k = "str"]

\* the positions of the columns labelled name
ColumnPositions(df, name) == {i \in 1..Len(df.columns) : df.columns[i] = name}

\* name in df.columns
HasColumn(df, name) == name \in Range(df.columns)

\* df[name], for a label carried by one column
Column(df, name) ==
    LET i == CHOOSE i \in ColumnPositions(df, name) : TRUE
    IN  [r \in 1..Len(df.rows) |-> df.rows[r][i]]

\* Series.nunique(): distinct non-null values
NUnique(series) == Cardinality({series[r] : r \in DOMAIN series} \ {NaN})

\* a sequence without its element at position i
DropAt(seq, i) == SubSeq(seq, 1, i - 1) \o SubSeq(seq, i + 1, Len(seq))

RECURSIVE DropPositions(_, _)
DropPositions(seq, S) ==
    IF S = {} THEN seq
    ELSE DropPositions(DropAt(seq, SetMax(S)), S \ {SetMax(S)})

\* df.drop(columns=[name])
DropColumn(df, name) ==
    LET S == ColumnPositions(df, name)
    IN  DataFrame(DropPositions(df.columns, S), DropPositions(df.object, S),
                  [r \in 1..Len(df.rows) |-> DropPositions(df.rows[r], S)])

NoException == [type |-> "none", msg |-> << >>]

-----------------------------------------------------------------------------
(* load_data *)

\* An uploaded file: format is what the bytes really are ("xlsx", "csv" or
\* "corrupt"); columns and rows are the table a successful parse yields.
\* fields records, per column, which field and spelling the header was written
\* from; the program never reads it.
NoFile ==
    [uploaded |-> FALSE, name |-> "", format |-> "", fields |-> << >>,
     columns |-> << >>, rows |-> << >>]

\* pd.read_excel succeeds on a workbook; otherwise pd.read_csv is tried after
\* seek(0); when both fail st.error names the file and None is returned
load_data(uploaded_file) ==
    IF uploaded_file.format = "xlsx"
    THEN [df |-> DataFrame(uploaded_file.columns,
                          read_dtypes(uploaded_file.columns, uploaded_file.rows),
                          uploaded_file.rows),
          ui |-> << >>]
    ELSE IF uploaded_file.format = "csv"
    THEN [df |-> DataFrame(uploaded_file.columns,
                          read_dtypes(uploaded_file.columns, uploaded_file.rows),
                          uploaded_file.rows),
          ui |-> << >>]
    ELSE [df |-> None,
          ui |-> <<[kind |-> "error", texto |-> "Falha ao ler o arquivo",
                    arquivo |-> uploaded_file.name]>>]

-----------------------------------------------------------------------------
(* find_and_rename_nusp_column *)

T_nusp == <<"n", "u", "s", "p">>

T_problema == <<"p", "r", "o", "b", "l", "e", "m", "a">>

T_Nome_completo == <<"N", "o", "m", "e", " ", "c", "o", "m", "p", "l", "e", "t", "o">>

T_parecer_sg == <<"p", "a", "r", "e", "c", "e", "r", "_", "s", "g">>

T_obs_sg == <<"o", "b", "s", "_", "s", "g">>

T_link_requerimento ==
    <<"l", "i", "n", "k", "_", "r", "e", "q", "u", "e", "r", "i", "m", "e", "n", "t", "o">>

T_link_plano_estudos ==
    <<"l", "i", "n", "k", "_", "p", "l", "a", "n", "o", "_", "e", "s", "t", "u", "d", "o", "s">>

T_link_plano_presenca ==
    <<"l", "i", "n", "k", "_", "p", "l", "a", "n", "o", "_", "p", "r", "e", "s", "e", "n", "c", "a">>

\* the dict of find_and_rename_nusp_column, in insertion order
rename_map ==
    << [standard_name |-> T_nusp,
        variations |-> << <<"n", "u", "s", "p">>,
                          <<"n", "u", "m", "e", "r", "o", " ", "u", "s", "p">>,
                          <<"n", "ú", "m", "e", "r", "o", " ", "u", "s", "p">>,
                          <<"n", "°", " ", "u", "s", "p">>,
                          <<"n", " ", "u", "s", "p">> >>],
       [standard_name |-> T_problema,
        variations |-> << <<"p", "r", "o", "b", "l", "e", "m", "a">> >>],
       [standard_name |-> T_Nome_completo,
        variations |-> << <<"n", "o", "m", "e", " ", "c", "o", "m", "p", "l", "e", "t", "o">> >>],
       [standard_name |-> T_parecer_sg,
        variations |-> << <<"p", "a", "r", "e", "c", "e", "r", " ", "d", "o", " ", "s", "e", "r",
                            "v", "i", "ç", "o", " ", "d", "e", " ", "g", "r", "a", "d", "u", "a",
                            "ç", "ã", "o">>,
                          <<"p", "a", "r", "e", "c", "e", "r", " ", "s", "e", "r", "v", "i", "ç",
                            "o", " ", "d", "e", " ", "g", "r", "a", "d", "u", "a", "ç", "ã", "o">> >>],
       [standard_name |-> T_obs_sg,
        variations |-> << <<"o", "b", "s", "e", "r", "v", "a", "ç", "ã", "o", " ", "d", "o", " ",
                            "s", "g">>,
                          <<"o", "b", "s", "e", "r", "v", "a", "c", "a", "o", " ", "s", "g">>,
                          <<"o", "b", "s", "e", "r", "v", "a", "ç", "ã", "o", " ", "s", "g">> >>],
       [standard_name |-> T_link_requerimento,
        variations |-> << <<"l", "i", "n", "k", "s", " ", "p", "e", "d", "i", "d", "o", "s", " ",
                            "r", "e", "q", "u", "e", "r", "i", "m", "e", "n", "t", "o">> >>],
       [standard_name |-> T_link_plano_estudos,
        variations |-> << <<"l", "i", "n", "k", " ", "p", "l", "a", "n", "o", " ", "d", "e", " ",
                            "e", "s", "t", "u", "d", "o", "s">> >>],
       [standard_name |-> T_link_plano_presenca,
        variations |-> << <<"l", "i", "n", "k", " ", "p", "l", "a", "n", "o", " ", "d", "e", " ",
                            "p", "r", "e", "s", "e", "n", "ç", "a">> >>] >>

\* normalized_col without the strip()
normalized_col_no_strip(col) == Lower(col)

\* normalized_col = str(col).lower().strip()
normalized_col(col) == Strip(Lower(col))

\* the inner loop over rename_map.items(): the first entry whose variations hold
\* the normalized label gives the new label (actual_renames[col]); a label
\* matching no entry is not in actual_renames and keeps its name
actual_renames(col) ==
    LET hits == {i \in DOMAIN rename_map :
                    normalized_col(col) \in Range(rename_map[i].variations)}
    IN  IF hits = {} THEN col ELSE rename_map[SetMin(hits)].standard_name

find_and_rename_nusp_column(df) ==
    LET renamed == DataFrame([i \in 1..Len(df.columns) |-> actual_renames(df.columns[i])],
                             df.object, df.rows)
    IN  IF ~HasColumn(renamed, T_nusp)
        THEN [df |-> renamed,
              raised |-> [type |-> "ValueError",
                          msg |-> <<[texto |-> "Coluna de Numero USP nao encontrada",
                                     colunas |-> renamed.columns]>>]]
        ELSE [df |-> renamed, raised |-> NoException]

-----------------------------------------------------------------------------
(* validate_dataframes *)

T_disciplina == <<"d", "i", "s", "c", "i", "p", "l", "i", "n", "a">>

T_Ano == <<"A", "n", "o">>

T_Semestre == <<"S", "e", "m", "e", "s", "t", "r", "e">>

T_parecer == <<"p", "a", "r", "e", "c", "e", "r">>

required_cols_consolidado ==
    <<T_nusp, T_disciplina, T_Ano, T_Semestre, T_problema, T_parecer>>

required_cols_requerimentos == <<T_nusp, T_Nome_completo, T_problema>>

\* [col for col in required if col not in df.columns]
missing_cols(required, df) ==
    SelectSeq(required, LAMBDA col : ~HasColumn(df, col))

\* validate_dataframes reporting the second file only when the first is complete
validate_dataframes_first_file(consolidado, requerimentos) ==
    LET missing_consolidado == missing_cols(required_cols_consolidado, consolidado)
        missing_requerimentos == missing_cols(required_cols_requerimentos, requerimentos)
    IN  IF missing_consolidado # << >>
        THEN [type |-> "ValueError",
              msg |-> <<[arquivo |-> "consolidado", colunas |-> missing_consolidado]>>]
        ELSE IF missing_requerimentos # << >>
        THEN [type |-> "ValueError",
              msg |-> <<[arquivo |-> "requerimentos", colunas |-> missing_requerimentos]>>]
        ELSE NoException

validate_dataframes(consolidado, requerimentos) ==
    LET missing_consolidado == missing_cols(required_cols_consolidado, consolidado)
        missing_requerimentos == missing_cols(required_cols_requerimentos, requerimentos)
        errors ==
            (IF missing_consolidado # << >>
             THEN <<[arquivo |-> "consolidado", colunas |-> missing_consolidado]>>
             ELSE << >>)
            \o
            (IF missing_requerimentos # << >>
             THEN <<[arquivo |-> "requerimentos", colunas |-> missing_requerimentos]>>
             ELSE << >>)
    IN  IF errors # << >>
        THEN [type |-> "ValueError", msg |-> errors]
        ELSE NoException

-----------------------------------------------------------------------------
(* preprocess_data *)

\* the value of a text as a number in tenths, for the texts
\* [-]digits and [-]digits.digit
ParseNumber(s) ==
    LET neg == Len(s) > 0 /\ s[1] = "-"
        body == IF neg THEN Tail(s) ELSE s
        dots == {i \in 1..Len(body) : body[i] = "."}
        sign == IF neg THEN -1 ELSE 1
    IN  IF dots = {}
        THEN IF IsDigits(body) THEN Num(sign * 10 * DigitsVal(body)) ELSE NaN
        ELSE LET d == SetMin(dots)
                 whole == SubSeq(body, 1, d - 1)
                 frac == SubSeq(body, d + 1, Len(body))
             IN  IF IsDigits(whole) /\ IsDigits(frac) /\ Len(frac) = 1
                 THEN Num(sign * (10 * DigitsVal(whole) + DigitsVal(frac)))
                 ELSE NaN

\* to_numeric with a zero taken for a missing value
to_numeric_zero_missing(cell) ==
    LET v == IF cell.k = "num" THEN cell
             ELSE IF cell.k = "str" THEN ParseNumber(cell.s)
             ELSE NaN
    IN  IF v.k = "num" /\ v.t = 0 THEN NaN ELSE v

\* pd.to_numeric(value, errors='coerce') of one cell: a number stays, a text is
\* parsed, what does not parse and a blank cell become NaN
to_numeric(cell) ==
    IF cell.k = "num" THEN cell
    ELSE IF cell.k = "str" THEN ParseNumber(cell.s)
    ELSE NaN

\* astype(int) rounding down instead of toward zero
astype_int_floor(cell) == Num((cell.t \div 10) * 10)

\* astype(int) of one number: truncation toward zero
astype_int(cell) ==
    IF cell.t >= 0 THEN Num((cell.t \div 10) * 10)
    ELSE Num(-(((-cell.t) \div 10) * 10))

\* isna().sum() counting the cells that are not null
isna_sum_counts_valid(rows, c) == Cardinality({r \in 1..Len(rows) : ~IsNa(rows[r][c])})

\* df["nusp"].isna().sum(), the column at position c
isna_sum(rows, c) == Cardinality({r \in 1..Len(rows) : IsNa(rows[r][c])})

\* df.dropna(subset=["nusp"]), the column at position c
dropna(rows, c) == SelectSeq(rows, LAMBDA row : ~IsNa(row[c]))

\* df["nusp"] selects one Series only when one column carries the label; with
\* several, df["nusp"] is a DataFrame and pd.to_numeric raises TypeError
preprocess_data(df, file_name) ==
    LET cols == ColumnPositions(df, T_nusp)
    IN  IF Cardinality(cols) # 1
        THEN [df |-> df, ui |-> << >>,
              raised |-> [type |-> "TypeError",
                          msg |-> <<[texto |-> "arg must be a list, tuple, 1-d array, or Series"]>>]]
        ELSE
        LET c == CHOOSE i \in cols : TRUE
            coerced == [r \in 1..Len(df.rows) |-> [df.rows[r] EXCEPT ![c] = to_numeric(@)]]
            nulos_antes == isna_sum(coerced, c)
            kept == dropna(coerced, c)
            cast == [r \in 1..Len(kept) |-> [kept[r] EXCEPT ![c] = astype_int(@)]]
        IN  [df |-> DataFrame(df.columns, [df.object EXCEPT ![c] = FALSE], cast),
             ui |-> IF nulos_antes > 0
                    THEN <<[kind |-> "warning", texto |-> "Removidos registros com NUSP invalido",
                            n |-> nulos_antes, arquivo |-> file_name]>>
                    ELSE << >>,
             raised |-> NoException]

-----------------------------------------------------------------------------
(* format_parecer *)

T_aprovado == <<"a", "p", "r", "o", "v", "a", "d", "o">>

T_indeferido == <<"i", "n", "d", "e", "f", "e", "r", "i", "d", "o">>

T_negado == <<"n", "e", "g", "a", "d", "o">>

\* the icon is the first character of the returned text: "X" is the cross mark,
\* "V" the check mark, "P" the memo
format_parecer(parecer) ==
    IF IsNa(parecer) THEN [icon |-> "P", texto |-> <<"P", "e", "n", "d", "e", "n", "t", "e">>]
    ELSE LET parecer_str == Lower(StrOf(parecer))
         IN  IF Contains(parecer_str, T_negado) \/ Contains(parecer_str, T_indeferido)
             THEN [icon |-> "X", texto |-> StrOf(parecer)]
             ELSE IF Contains(parecer_str, T_aprovado)
             THEN [icon |-> "V", texto |-> StrOf(parecer)]
             ELSE [icon |-> "P", texto |-> StrOf(parecer)]

-----------------------------------------------------------------------------
(* display_overview *)

T_historico == <<"_", "h", "i", "s", "t", "o", "r", "i", "c", "o">>

T_atual == <<"_", "a", "t", "u", "a", "l">>

T_QR == <<"Q", "R">>

T_CH == <<"C", "H">>

\* Series.str.lower() / .str.upper() of one cell: a cell that is no text gives NaN
str_lower(cell) == IF cell.k = "str" THEN Txt(Lower(cell.s)) ELSE NaN

str_upper(cell) == IF cell.k = "str" THEN Txt(Upper(cell.s)) ELSE NaN

\* Series.str.contains('a|b', na=False) of one cell, alternatives the set {a, b}
str_contains(cell, alternatives) ==
    IF cell.k = "str" THEN \E a \in alternatives : Contains(cell.s, a) ELSE FALSE

\* Series.str: the accessor exists when the values infer as text, as mixed, or as
\* empty (an object column of blanks only); otherwise it raises AttributeError
str_accessor(df, name) ==
    LET i == CHOOSE i \in ColumnPositions(df, name) : TRUE
    IN  \/ \E r \in 1..Len(df.rows) : df.rows[r][i].k = "str"
        \/ df.object[i] /\ \A r \in 1..Len(df.rows) : df.rows[r][i].k = "null"

AttributeError ==
    [type |-> "AttributeError",
     msg |-> <<[texto |-> "Can only use .str accessor with string values!"]>>]

\* number of True in a boolean Series
SumTrue(mask) == Cardinality({r \in DOMAIN mask : mask[r]})

\* a / b * 100, kept in tenths of a percent; fault is the division by zero
Percent(a, b) ==
    IF b = 0 THEN [fault |-> TRUE, permille |-> 0]
    ELSE [fault |-> FALSE, permille |-> (a * 1000) \div b]

\* the literal 0 of the conditional expressions
Zero == [fault |-> FALSE, permille |-> 0]

\* DataFrame.empty
Empty(df) == Len(df.rows) = 0 \/ Len(df.columns) = 0

\* aprovados without the exclusion of the denials
aprovados_without_precedence(pareceres) ==
    [r \in DOMAIN pareceres |-> str_contains(pareceres[r], {T_aprovado})]

\* pareceres.str.contains('aprovado', na=False) & ~pareceres.str.contains('indeferido|negado', na=False)
aprovados(pareceres) ==
    [r \in DOMAIN pareceres |->
        str_contains(pareceres[r], {T_aprovado})
        /\ ~str_contains(pareceres[r], {T_indeferido, T_negado})]

\* pareceres.str.contains('indeferido|negado', na=False)
negados(pareceres) ==
    [r \in DOMAIN pareceres |-> str_contains(pareceres[r], {T_indeferido, T_negado})]

\* (aprovados.sum() / (aprovados.sum() + negados.sum()) * 100) if ... > 0 else 0
taxa_aprovacao(n_aprovados, n_negados) ==
    IF n_aprovados + n_negados > 0
    THEN Percent(n_aprovados, n_aprovados + n_negados)
    ELSE Zero

\* (alunos_unicos_com_hist / total_alunos_req * 100) if total_alunos_req > 0 else 0
percentual_historico(alunos_unicos_com_hist, total_alunos_req) ==
    IF total_alunos_req > 0
    THEN Percent(alunos_unicos_com_hist, total_alunos_req)
    ELSE Zero

\* The metrics of display_overview; graficos tells whether the branch
\* "if not alunos_com_historico.empty" ran, which alone computes the masks, the
\* approval rate and the QR/CH totals.  The two charts are rendering only.
display_overview(requerimentos, com_historico, novos) ==
    LET alunos_unicos_com_hist == NUnique(Column(com_historico, T_nusp))
        total_alunos_req == NUnique(Column(requerimentos, T_nusp))
        base == [total_req |-> Len(requerimentos.rows),
                 alunos_unicos_com_hist |-> alunos_unicos_com_hist,
                 total_alunos_req |-> total_alunos_req,
                 percentual_historico |->
                     percentual_historico(alunos_unicos_com_hist, total_alunos_req),
                 alunos_novos |-> NUnique(Column(novos, T_nusp))]
    IN  IF ~Empty(com_historico)
           /\ ~(/\ str_accessor(com_historico, T_parecer \o T_historico)
                /\ str_accessor(com_historico, T_problema \o T_historico))
        THEN base @@ [graficos |-> TRUE, raised |-> AttributeError]
        ELSE IF ~Empty(com_historico)
        THEN LET col == Column(com_historico, T_parecer \o T_historico)
                 pareceres == [r \in DOMAIN col |-> str_lower(col[r])]
                 ap == aprovados(pareceres)
                 ne == negados(pareceres)
                 prob == Column(com_historico, T_problema \o T_historico)
             IN  base @@ [graficos |-> TRUE, raised |-> NoException,
                          aprovados |-> ap, negados |-> ne,
                          taxa_aprovacao |-> taxa_aprovacao(SumTrue(ap), SumTrue(ne)),
                          total_qr |-> Cardinality({r \in DOMAIN prob :
                                                      str_upper(prob[r]) = Txt(T_QR)}),
                          total_ch |-> Cardinality({r \in DOMAIN prob :
                                                      str_upper(prob[r]) = Txt(T_CH)})]
        ELSE base @@ [graficos |-> FALSE, raised |-> NoException,
                      aprovados |-> << >>, negados |-> << >>,
                      taxa_aprovacao |-> Zero, total_qr |-> 0, total_ch |-> 0]

\* display_students_with_history with no search text and the filter 'Todos':
\* the parecer_formatado cell of every joined row
display_students_with_history(com_historico) ==
    IF Empty(com_historico) THEN << >>
    ELSE LET col == Column(com_historico, T_parecer \o T_historico)
         IN  [r \in DOMAIN col |-> format_parecer(col[r])]

-----------------------------------------------------------------------------
(* run_app: the column renames, the join and the complement *)

\* cols_to_rename_hist
cols_to_rename_hist(c) ==
    IF c \in {T_disciplina, T_Ano, T_Semestre, T_problema, T_parecer}
    THEN c \o T_historico ELSE c

\* req_rename_map: 'problema' always, the optional columns when present
req_rename_map(c) ==
    IF c \in {T_problema, T_parecer_sg, T_obs_sg, T_link_requerimento,
              T_link_plano_estudos, T_link_plano_presenca}
    THEN c \o T_atual ELSE c

\* merge_rows as a lookup would do it: a left row is paired with its first match only
merge_rows_first_match(lrows, rrows, lk, rk) ==
    LET m(l) == SelectSeq(rrows, LAMBDA r : r[rk] = l[lk])
        ls == SelectSeq(lrows, LAMBDA l : m(l) # << >>)
    IN  [j \in 1..Len(ls) |-> ls[j] \o DropAt(Head(m(ls[j])), rk)]

\* the rows of left.merge(right, on=key, how="inner"): for each left row in order,
\* one row per right row, in order, with the same key
RECURSIVE merge_rows(_, _, _, _)
merge_rows(lrows, rrows, lk, rk) ==
    IF lrows = << >> THEN << >>
    ELSE LET l == Head(lrows)
             m == SelectSeq(rrows, LAMBDA r : r[rk] = l[lk])
         IN  [j \in 1..Len(m) |-> l \o DropAt(m[j], rk)]
             \o merge_rows(Tail(lrows), rrows, lk, rk)

\* left.merge(right, on=key, how="inner"); a label other than the key borne by
\* both frames gets the suffixes _x and _y
merge(left, right, key) ==
    LET lk == CHOOSE i \in ColumnPositions(left, key) : TRUE
        rk == CHOOSE i \in ColumnPositions(right, key) : TRUE
        shared == (Range(left.columns) \cap Range(right.columns)) \ {key}
        lcols == [i \in 1..Len(left.columns) |->
                    IF left.columns[i] \in shared
                    THEN left.columns[i] \o <<"_", "x">> ELSE left.columns[i]]
        rcols == [i \in 1..Len(right.columns) |->
                    IF right.columns[i] \in shared
                    THEN right.columns[i] \o <<"_", "y">> ELSE right.columns[i]]
    IN  DataFrame(lcols \o DropAt(rcols, rk), left.object \o DropAt(right.object, rk),
                  merge_rows(left.rows, right.rows, lk, rk))

\* set(alunos_com_historico['nusp'])
nusp_set(com_historico) ==
    LET col == Column(com_historico, T_nusp) IN {col[r] : r \in DOMAIN col}

\* novos without the negation of the mask
novos_keeps_matched(requerimentos, nusps) ==
    LET c == CHOOSE i \in ColumnPositions(requerimentos, T_nusp) : TRUE
    IN  DataFrame(requerimentos.columns, requerimentos.object,
                  SelectSeq(requerimentos.rows, LAMBDA row : row[c] \in nusps))

\* df_requerimentos[~df_requerimentos['nusp'].isin(nusps)]
novos(requerimentos, nusps) ==
    LET c == CHOOSE i \in ColumnPositions(requerimentos, T_nusp) : TRUE
    IN  DataFrame(requerimentos.columns, requerimentos.object,
                  SelectSeq(requerimentos.rows, LAMBDA row : row[c] \notin nusps))

-----------------------------------------------------------------------------
(* The uploaded files the specifications start from *)

T_numero_usp == <<"n", "u", "m", "e", "r", "o", " ", "u", "s", "p">>

T_n_usp == <<"n", " ", "u", "s", "p">>

T_observacao_sg == <<"o", "b", "s", "e", "r", "v", "a", "ç", "ã", "o", " ", "s", "g">>

T_curso == <<"c", "u", "r", "s", "o">>

T_abc == <<"a", "b", "c">>

T_Aprovado == <<"A", "p", "r", "o", "v", "a", "d", "o">>

T_Negado == <<"N", "e", "g", "a", "d", "o">>

\* every sequence over S of length at most n
SeqsUpTo(S, n) == UNION {[1..k -> S] : k \in 0..n}

\* a header as typed in a spreadsheet: base written in one of five ways
Styled(base, style) ==
    CASE style = "exact" -> base
      [] style = "upper" -> Upper(base)
      [] style = "lower" -> Lower(base)
      [] style = "padded" -> <<" ">> \o base \o <<" ">>
      [] style = "padded_upper" -> <<" ", " ">> \o Upper(base) \o <<"\t">>

\* one column of a layout: the field it holds, the spelling it was written from
\* and how it was typed
Col(field, base, style) == [field |-> field, base |-> base, style |-> style]

\* the label validate_dataframes requires for a field
FieldLabel(field) ==
    CASE field = "nusp" -> T_nusp
      [] field = "disciplina" -> T_disciplina
      [] field = "Ano" -> T_Ano
      [] field = "Semestre" -> T_Semestre
      [] field = "problema" -> T_problema
      [] field = "parecer" -> T_parecer
      [] field = "Nome completo" -> T_Nome_completo

ConsFields == <<"nusp", "disciplina", "Ano", "Semestre", "problema", "parecer">>

ReqFields == <<"nusp", "Nome completo", "problema">>

ExactLayout(fields) ==
    [i \in 1..Len(fields) |-> Col(fields[i], FieldLabel(fields[i]), "exact")]

\* one row of a file: spec gives the identifier cell, the decision cell and the
\* name cell; the issue type is "qr" and every other cell the text "x"
MakeRow(layout, spec) ==
    [i \in 1..Len(layout) |->
        CASE layout[i].field = "nusp" -> spec.id
          [] layout[i].field = "parecer" -> spec.parecer
          [] layout[i].field = "Nome completo" -> spec.nome
          [] layout[i].field = "problema" -> Txt(<<"q", "r">>)
          [] OTHER -> Txt(<<"x">>)]

File(name, format, layout, specs) ==
    [uploaded |-> TRUE, name |-> name, format |-> format, fields |-> layout,
     columns |-> [i \in 1..Len(layout) |-> Styled(layout[i].base, layout[i].style)],
     rows |-> [r \in 1..Len(specs) |-> MakeRow(layout, specs[r])]]

\* row r of a file built from a sequence of identifier cells: the decision
\* alternates between an approval and a denial, the name is the row number
RowSpecs(ids) ==
    [r \in 1..Len(ids) |->
        [id |-> ids[r],
         parecer |-> IF r % 2 = 1 THEN Txt(T_Aprovado) ELSE Txt(T_Negado),
         nome |-> Txt(NatText(r))]]

ConsExact == ExactLayout(ConsFields)

ReqExact == ExactLayout(ReqFields)

\* layouts of the historical file in the pipeline specification: as required;
\* identifier and issue type typed differently; decision missing; year in upper
\* case; no identifier; two identifier columns; with a name column
ConsPipelineLayouts ==
    { ConsExact,
      [ConsExact EXCEPT ![1] = Col("nusp", T_numero_usp, "upper"),
                        ![5] = Col("problema", T_problema, "padded")],
      SubSeq(ConsExact, 1, 5),
      [ConsExact EXCEPT ![3] = Col("Ano", T_Ano, "upper")],
      Tail(ConsExact),
      ConsExact \o <<Col("nusp", T_n_usp, "upper")>>,
      ConsExact \o <<Col("Nome completo", T_Nome_completo, "lower")>> }

\* layouts of the current file: as required; typed differently; name missing;
\* no identifier; with the optional observation column and an unknown one
ReqPipelineLayouts ==
    { ReqExact,
      [i \in 1..3 |-> Col(ReqFields[i], FieldLabel(ReqFields[i]),
                          IF i = 2 THEN "upper" ELSE "padded")],
      DropAt(ReqExact, 2),
      Tail(ReqExact),
      ReqExact \o <<Col("obs_sg", T_observacao_sg, "upper"), Col("curso", T_curso, "exact")>> }

Unreadable(name) == File(name, "corrupt", << >>, << >>)

\* identifier cells of the pipeline specification
ConsIds == {Num(10 * i) : i \in 1..MaxId} \cup {Txt(T_abc)}

ReqIds == {Num(10 * i) : i \in 1..MaxId} \cup {NaN, Num(15)}

\* the pairs of uploads of the pipeline specification: every layout and format
\* with two fixed tables, every table with the required layout, and the uploads
\* that are missing or unreadable
PipelineInputs ==
    { <<File("consolidado.xlsx", f, lc, RowSpecs(<<Num(10)>>)),
        File("requerimentos.csv", "csv", lr, RowSpecs(<<Num(10), Num(20)>>))>> :
        f \in {"xlsx", "csv"}, lc \in ConsPipelineLayouts, lr \in ReqPipelineLayouts }
    \cup
    { <<File("consolidado.xlsx", "xlsx", ConsExact, RowSpecs(ic)),
        File("requerimentos.csv", "csv", ReqExact, RowSpecs(ir))>> :
        ic \in SeqsUpTo(ConsIds, MaxRows), ir \in SeqsUpTo(ReqIds, MaxRows) }
    \cup
    { <<c, r>> :
        c \in {NoFile, Unreadable("consolidado.xlsx"),
               File("consolidado.xlsx", "xlsx", ConsExact, RowSpecs(<<Num(10)>>))},
        r \in {NoFile, Unreadable("requerimentos.csv"),
               File("requerimentos.csv", "csv", ReqExact, RowSpecs(<<Num(10)>>))} }

NoOverview == [done |-> FALSE]

\* st.session_state without any key
EmptySession == [k \in {} |-> FALSE]

\* st.session_state[key] = value
SetKey(state, key, value) ==
    [k \in DOMAIN state \cup {key} |-> IF k = key THEN value ELSE state[k]]

\* st.secrets: no secrets file; a file without passwords.senha_mestra; the key set
NoSecretsFile == [kind |-> "no_file"]

NoSecretKey == [kind |-> "no_key"]

Configured(senha_mestra) == [kind |-> "configured", senha_mestra |-> senha_mestra]

\* a script execution that no form submission started
NoSubmission == [submitted |-> FALSE, password |-> ""]

\* run_app is entered only in a session whose flag is true
Authenticated ==
    /\ session_state = SetKey(EmptySession, "password_correct", TRUE)
    /\ secrets = NoSecretKey
    /\ submission = NoSubmission

\* the script enters run_app with nothing computed yet
Entering(files) ==
    /\ pc = "run_app"
    /\ file_consolidado = files[1]
    /\ file_requerimentos = files[2]
    /\ df_consolidado = None
    /\ df_requerimentos = None
    /\ alunos_com_historico = None
    /\ nusps_com_historico = {}
    /\ df_novos = None
    /\ overview = NoOverview
    /\ historico_formatado = << >>
    /\ ui = << >>
    /\ raised = NoException
    /\ calls = << >>
    /\ Authenticated

Init == \E files \in PipelineInputs : Entering(files)

-----------------------------------------------------------------------------
(* run_app, one action per statement of its body *)

\* lines 332-340: without both uploads the welcome text is shown and run_app returns
Begin ==
    /\ pc = "run_app"
    /\ UNCHANGED session
    /\ IF ~(file_consolidado.uploaded /\ file_requerimentos.uploaded)
       THEN /\ pc' = "welcome"
            /\ ui' = Append(ui, [kind |-> "markdown", texto |-> "Bem-vindo"])
       ELSE /\ pc' = "load_consolidado"
            /\ ui' = ui
    /\ UNCHANGED <<file_consolidado, file_requerimentos, df_consolidado, df_requerimentos,
                   alunos_com_historico, nusps_com_historico, df_novos, overview,
                   historico_formatado, raised, calls>>

\* line 344
LoadConsolidado ==
    /\ pc = "load_consolidado"
    /\ UNCHANGED session
    /\ LET r == load_data(file_consolidado)
       IN  /\ df_consolidado' = r.df
           /\ ui' = ui \o r.ui
    /\ calls' = Append(calls, "load_data(consolidado)")
    /\ pc' = "load_requerimentos"
    /\ UNCHANGED <<file_consolidado, file_requerimentos, df_requerimentos,
                   alunos_com_historico, nusps_com_historico, df_novos, overview,
                   historico_formatado, raised>>

\* line 345
LoadRequerimentos ==
    /\ pc = "load_requerimentos"
    /\ UNCHANGED session
    /\ LET r == load_data(file_requerimentos)
       IN  /\ df_requerimentos' = r.df
           /\ ui' = ui \o r.ui
    /\ calls' = Append(calls, "load_data(requerimentos)")
    /\ pc' = "check_loaded"
    /\ UNCHANGED <<file_consolidado, file_requerimentos, df_consolidado,
                   alunos_com_historico, nusps_com_historico, df_novos, overview,
                   historico_formatado, raised>>

\* CheckLoaded without the st.stop()
CheckLoaded_without_stop ==
    /\ pc = "check_loaded"
    /\ UNCHANGED session
    /\ pc' = "normalize_consolidado"
    /\ UNCHANGED <<file_consolidado, file_requerimentos, df_consolidado, df_requerimentos,
                   alunos_com_historico, nusps_com_historico, df_novos, overview,
                   historico_formatado, ui, raised, calls>>

\* line 347: st.stop() ends the script run
CheckLoaded ==
    /\ pc = "check_loaded"
    /\ UNCHANGED session
    /\ pc' = IF df_consolidado.none \/ df_requerimentos.none
             THEN "stopped" ELSE "normalize_consolidado"
    /\ UNCHANGED <<file_consolidado, file_requerimentos, df_consolidado, df_requerimentos,
                   alunos_com_historico, nusps_com_historico, df_novos, overview,
                   historico_formatado, ui, raised, calls>>

\* line 349
NormalizeConsolidado ==
    /\ pc = "normalize_consolidado"
    /\ UNCHANGED session
    /\ LET r == find_and_rename_nusp_column(df_consolidado)
       IN  /\ df_consolidado' = r.df
           /\ raised' = r.raised
           /\ pc' = IF r.raised.type # "none" THEN "except" ELSE "normalize_requerimentos"
    /\ calls' = Append(calls, "find_and_rename_nusp_column(consolidado)")
    /\ UNCHANGED <<file_consolidado, file_requerimentos, df_requerimentos,
                   alunos_com_historico, nusps_com_historico, df_novos, overview,
                   historico_formatado, ui>>

\* line 350
NormalizeRequerimentos ==
    /\ pc = "normalize_requerimentos"
    /\ UNCHANGED session
    /\ LET r == find_and_rename_nusp_column(df_requerimentos)
       IN  /\ df_requerimentos' = r.df
           /\ raised' = r.raised
           /\ pc' = IF r.raised.type # "none" THEN "except" ELSE "validate"
    /\ calls' = Append(calls, "find_and_rename_nusp_column(requerimentos)")
    /\ UNCHANGED <<file_consolidado, file_requerimentos, df_consolidado,
                   alunos_com_historico, nusps_com_historico, df_novos, overview,
                   historico_formatado, ui>>

\* line 357
Validate ==
    /\ pc = "validate"
    /\ UNCHANGED session
    /\ LET e == validate_dataframes(df_consolidado, df_requerimentos)
       IN  /\ raised' = e
           /\ pc' = IF e.type # "none" THEN "except" ELSE "drop_nome"
    /\ calls' = Append(calls, "validate_dataframes")
    /\ UNCHANGED <<file_consolidado, file_requerimentos, df_consolidado, df_requerimentos,
                   alunos_com_historico, nusps_com_historico, df_novos, overview,
                   historico_formatado, ui>>

\* lines 359-360
DropNomeCompleto ==
    /\ pc = "drop_nome"
    /\ UNCHANGED session
    /\ df_consolidado' = IF HasColumn(df_consolidado, T_Nome_completo)
                         THEN DropColumn(df_consolidado, T_Nome_completo)
                         ELSE df_consolidado
    /\ pc' = "preprocess_consolidado"
    /\ UNCHANGED <<file_consolidado, file_requerimentos, df_requerimentos,
                   alunos_com_historico, nusps_com_historico, df_novos, overview,
                   historico_formatado, ui, raised, calls>>

\* line 362
PreprocessConsolidado ==
    /\ pc = "preprocess_consolidado"
    /\ UNCHANGED session
    /\ LET r == preprocess_data(df_consolidado, file_consolidado.name)
       IN  /\ df_consolidado' = r.df
           /\ ui' = ui \o r.ui
           /\ raised' = r.raised
           /\ pc' = IF r.raised.type # "none" THEN "except" ELSE "preprocess_requerimentos"
    /\ calls' = Append(calls, "preprocess_data(consolidado)")
    /\ UNCHANGED <<file_consolidado, file_requerimentos, df_requerimentos,
                   alunos_com_historico, nusps_com_historico, df_novos, overview,
                   historico_formatado>>

\* line 363
PreprocessRequerimentos ==
    /\ pc = "preprocess_requerimentos"
    /\ UNCHANGED session
    /\ LET r == preprocess_data(df_requerimentos, file_requerimentos.name)
       IN  /\ df_requerimentos' = r.df
           /\ ui' = ui \o r.ui
           /\ raised' = r.raised
           /\ pc' = IF r.raised.type # "none" THEN "except" ELSE "rename"
    /\ calls' = Append(calls, "preprocess_data(requerimentos)")
    /\ UNCHANGED <<file_consolidado, file_requerimentos, df_consolidado,
                   alunos_com_historico, nusps_com_historico, df_novos, overview,
                   historico_formatado>>

\* lines 365-374
RenameColumns ==
    /\ pc = "rename"
    /\ UNCHANGED session
    /\ df_consolidado' =
          DataFrame([i \in 1..Len(df_consolidado.columns) |->
                        cols_to_rename_hist(df_consolidado.columns[i])],
                    df_consolidado.object, df_consolidado.rows)
    /\ df_requerimentos' =
          DataFrame([i \in 1..Len(df_requerimentos.columns) |->
                        req_rename_map(df_requerimentos.columns[i])],
                    df_requerimentos.object, df_requerimentos.rows)
    /\ pc' = "merge"
    /\ UNCHANGED <<file_consolidado, file_requerimentos, alunos_com_historico,
                   nusps_com_historico, df_novos, overview, historico_formatado, ui,
                   raised, calls>>

\* lines 376-378
Reconcile ==
    /\ pc = "merge"
    /\ UNCHANGED session
    /\ LET joined == merge(df_requerimentos, df_consolidado, T_nusp)
       IN  /\ alunos_com_historico' = joined
           /\ nusps_com_historico' = nusp_set(joined)
           /\ df_novos' = novos(df_requerimentos, nusp_set(joined))
    /\ calls' = Append(calls, "merge")
    /\ pc' = "tab_overview"
    /\ UNCHANGED <<file_consolidado, file_requerimentos, df_consolidado, df_requerimentos,
                   overview, historico_formatado, ui, raised>>

\* lines 386-387
DisplayOverview ==
    /\ pc = "tab_overview"
    /\ UNCHANGED session
    /\ overview' = display_overview(df_requerimentos, alunos_com_historico, df_novos)
                   @@ [done |-> TRUE]
    /\ ui' = IF Empty(alunos_com_historico)
             THEN Append(ui, [kind |-> "info", texto |-> "Nao ha dados historicos"])
             ELSE ui
    /\ calls' = Append(calls, "display_overview")
    /\ raised' = overview'.raised
    /\ pc' = IF overview'.raised # NoException THEN "except" ELSE "tab_with_history"
    /\ UNCHANGED <<file_consolidado, file_requerimentos, df_consolidado, df_requerimentos,
                   alunos_com_historico, nusps_com_historico, df_novos,
                   historico_formatado>>

\* lines 388-389
DisplayStudentsWithHistory ==
    /\ pc = "tab_with_history"
    /\ UNCHANGED session
    /\ historico_formatado' = display_students_with_history(alunos_com_historico)
    /\ ui' = IF Empty(alunos_com_historico)
             THEN Append(ui, [kind |-> "success", texto |-> "Nenhum aluno no historico"])
             ELSE ui
    /\ calls' = Append(calls, "display_students_with_history")
    /\ pc' = "tab_new_students"
    /\ UNCHANGED <<file_consolidado, file_requerimentos, df_consolidado, df_requerimentos,
                   alunos_com_historico, nusps_com_historico, df_novos, overview, raised>>

\* lines 390-391
DisplayNewStudents ==
    /\ pc = "tab_new_students"
    /\ UNCHANGED session
    /\ ui' = IF Empty(df_novos)
             THEN Append(ui, [kind |-> "info", texto |-> "Todos ja possuem historico"])
             ELSE Append(ui, [kind |-> "markdown", texto |-> "alunos pela primeira vez",
                              n |-> Cardinality(nusp_set(df_novos))])
    /\ calls' = Append(calls, "display_new_students")
    /\ pc' = "done"
    /\ UNCHANGED <<file_consolidado, file_requerimentos, df_consolidado, df_requerimentos,
                   alunos_com_historico, nusps_com_historico, df_novos, overview,
                   historico_formatado, raised>>

\* lines 393-394
HandleValueError ==
    /\ pc = "except"
    /\ UNCHANGED session
    /\ raised.type = "ValueError"
    /\ ui' = Append(ui, [kind |-> "error", texto |-> "Erro de Validacao", e |-> raised.msg])
    /\ pc' = "error_reported"
    /\ UNCHANGED <<file_consolidado, file_requerimentos, df_consolidado, df_requerimentos,
                   alunos_com_historico, nusps_com_historico, df_novos, overview,
                   historico_formatado, raised, calls>>

\* lines 395-397
HandleException ==
    /\ pc = "except"
    /\ UNCHANGED session
    /\ raised.type # "ValueError"
    /\ ui' = Append(ui, [kind |-> "error", texto |-> "Ocorreu um erro inesperado",
                         e |-> raised.msg])
    /\ pc' = "error_reported"
    /\ UNCHANGED <<file_consolidado, file_requerimentos, df_consolidado, df_requerimentos,
                   alunos_com_historico, nusps_com_historico, df_novos, overview,
                   historico_formatado, raised, calls>>

Next ==
    \/ Begin
    \/ LoadConsolidado
    \/ LoadRequerimentos
    \/ CheckLoaded
    \/ NormalizeConsolidado
    \/ NormalizeRequerimentos
    \/ Validate
    \/ DropNomeCompleto
    \/ PreprocessConsolidado
    \/ PreprocessRequerimentos
    \/ RenameColumns
    \/ Reconcile
    \/ DisplayOverview
    \/ DisplayStudentsWithHistory
    \/ DisplayNewStudents
    \/ HandleValueError
    \/ HandleException

Spec == Init /\ [][Next]_vars

-----------------------------------------------------------------------------
(* Properties of the pipeline, checked under Spec *)

\* the join has run
Joined == pc \in {"tab_overview", "tab_with_history", "tab_new_students", "done"}

\* the identifier cells of a frame's rows
Identifiers(df) ==
    {df.rows[r][i] : r \in 1..Len(df.rows), i \in ColumnPositions(df, T_nusp)}

\* the number of rows of a frame with identifier k
RowsWith(df, k) ==
    Cardinality({r \in 1..Len(df.rows) :
                    \E i \in ColumnPositions(df, T_nusp) : df.rows[r][i] = k})

\* C1: once the join has run, the identifiers of the join result and those of
\* df_novos are disjoint, together they are exactly the identifiers of the cleaned
\* current dataset, and a current identifier is in the join result iff some
\* cleaned historical record carries it.
C1_Partition ==
    Joined =>
        /\ nusps_com_historico = Identifiers(alunos_com_historico)
        /\ nusps_com_historico \cap Identifiers(df_novos) = {}
        /\ nusps_com_historico \cup Identifiers(df_novos) = Identifiers(df_requerimentos)
        /\ nusps_com_historico
              = Identifiers(df_requerimentos) \cap Identifiers(df_consolidado)

\* a run where both classes are inhabited and the historical log has two records
C1_Witness ==
    /\ Joined
    /\ nusps_com_historico # {}
    /\ Identifiers(df_novos) # {}
    /\ Len(df_consolidado.rows) = 2

\* the functions run_app calls, in the order of its body
RunOrder ==
    <<"load_data(consolidado)", "load_data(requerimentos)",
      "find_and_rename_nusp_column(consolidado)",
      "find_and_rename_nusp_column(requerimentos)",
      "validate_dataframes", "preprocess_data(consolidado)",
      "preprocess_data(requerimentos)", "merge", "display_overview",
      "display_students_with_history", "display_new_students">>

BothUploaded == file_consolidado.uploaded /\ file_requerimentos.uploaded

ALoadFails ==
    BothUploaded /\ "corrupt" \in {file_consolidado.format, file_requerimentos.format}

ErrorShown == \E m \in Range(ui) : m.kind = "error"

\* C2: the calls of a run follow the order load, load, normalize, normalize,
\* validate, clean, clean, join, display; when the join has run both files were
\* loaded, no exception is pending and every required column is there; when a
\* load fails the run goes no further than st.stop(), and when normalization or
\* validation raises ValueError the run goes to the except clause; in both cases
\* the join is not executed and the finished run shows an error.
C2_AbortBeforeJoin ==
    /\ calls = SubSeq(RunOrder, 1, Len(calls))
    /\ "merge" \in Range(calls) =>
          /\ ~df_consolidado.none /\ ~df_requerimentos.none
          /\ raised = NoException
          /\ ~ErrorShown
          /\ \A c \in Range(required_cols_consolidado) :
                HasColumn(df_consolidado, cols_to_rename_hist(c))
          /\ \A c \in Range(required_cols_requerimentos) :
                HasColumn(df_requerimentos, req_rename_map(c))
    /\ ALoadFails =>
          /\ pc \in {"run_app", "load_consolidado", "load_requerimentos",
                     "check_loaded", "stopped"}
          /\ "merge" \notin Range(calls)
          /\ pc = "stopped" => ErrorShown /\ Len(calls) = 2
    /\ raised.type = "ValueError" =>
          /\ pc \in {"except", "error_reported"}
          /\ "merge" \notin Range(calls)
          /\ calls[Len(calls)] \in {"find_and_rename_nusp_column(consolidado)",
                                    "find_and_rename_nusp_column(requerimentos)",
                                    "validate_dataframes"}
          /\ pc = "error_reported" => ErrorShown

\* a run stopped by validation, with both normalizations done and no join
C2_Witness ==
    /\ pc = "error_reported"
    /\ raised.type = "ValueError"
    /\ calls = SubSeq(RunOrder, 1, 5)
    /\ alunos_com_historico = None

\* C6: for every identifier k the join result has (current rows with k) times
\* (historical rows with k) rows with k.
C6_FanOut ==
    Joined =>
        \A k \in Identifiers(df_requerimentos) \cup Identifiers(df_consolidado) :
            RowsWith(alunos_com_historico, k)
                = RowsWith(df_requerimentos, k) * RowsWith(df_consolidado, k)

\* one identifier with two current and two historical rows, and one with none
C6_Witness ==
    /\ Joined
    /\ \E k \in Identifiers(df_requerimentos) :
          RowsWith(df_requerimentos, k) = 2 /\ RowsWith(df_consolidado, k) = 2
    /\ Len(alunos_com_historico.rows) = 4

-----------------------------------------------------------------------------
(* preprocess_data on every small table of identifier cells: SpecClean *)

T_2 == <<"2">>

T_minus_1_5 == <<"-", "1", ".", "5">>

\* identifier cells: blank, text that is no number, text that is a number,
\* and the numbers 1, -1, 2.5 and 0.5
CleanCells ==
    {NaN, Txt(T_abc), Txt(T_2), Txt(T_minus_1_5), Num(10), Num(-10), Num(25), Num(5)}

CleanInputs ==
    { <<File("consolidado.xlsx", "xlsx", ConsExact, RowSpecs(<<Num(10)>>)),
        File("requerimentos.csv", "csv", ReqExact, RowSpecs(ids))>> :
        ids \in SeqsUpTo(CleanCells, MaxCleanRows) }

InitClean == \E files \in CleanInputs : Entering(files)

\* preprocess_data applied to the frame it returned
PreprocessAgain ==
    /\ pc = "rename"
    /\ UNCHANGED session
    /\ LET r == preprocess_data(df_requerimentos, file_requerimentos.name)
       IN  /\ df_requerimentos' = r.df
           /\ ui' = ui \o r.ui
           /\ raised' = r.raised
    /\ calls' = Append(calls, "preprocess_data(requerimentos)")
    /\ pc' = "preprocessed_again"
    /\ UNCHANGED <<file_consolidado, file_requerimentos, df_consolidado,
                   alunos_com_historico, nusps_com_historico, df_novos, overview,
                   historico_formatado>>

NextClean ==
    \/ Begin
    \/ LoadConsolidado
    \/ LoadRequerimentos
    \/ CheckLoaded
    \/ NormalizeConsolidado
    \/ NormalizeRequerimentos
    \/ Validate
    \/ DropNomeCompleto
    \/ PreprocessConsolidado
    \/ PreprocessRequerimentos
    \/ PreprocessAgain

SpecClean == InitClean /\ [][NextClean]_vars

\* preprocess_data has returned the current dataset once
Cleaned == pc = "rename"

\* the identifier cell of a row of the uploaded current file (its first column)
RawId(row) == row[1]

\* a cell that is blank or a text that is no number
FailsCoercion(cell) ==
    cell.k = "null" \/ (cell.k = "str" /\ cell.s \in {T_abc, << >>})

\* a cell that is a non-negative integer, as a number or as text
IsNonNegativeInteger(cell) ==
    \/ cell.k = "num" /\ cell.t >= 0 /\ cell.t % 10 = 0
    \/ cell.k = "str" /\ IsDigits(cell.s)

\* the value, in tenths, of a cell that does not fail coercion
ValueOf(cell) == IF cell.k = "num" THEN cell.t ELSE ParseNumber(cell.s).t

Abs(n) == IF n < 0 THEN -n ELSE n

Coercible == SelectSeq(file_requerimentos.rows, LAMBDA row : ~FailsCoercion(RawId(row)))

\* C3 as claimed: after preprocess_data every remaining identifier is a
\* non-negative integer and every input record whose identifier is not a
\* non-negative integer (text, blank, negative or fractional) has been dropped.
C3_OnlyNonNegativeIntegers ==
    Cleaned =>
        /\ \A r \in 1..Len(df_requerimentos.rows) :
              IsNonNegativeInteger(df_requerimentos.rows[r][1])
        /\ Len(df_requerimentos.rows)
              = Len(SelectSeq(file_requerimentos.rows,
                              LAMBDA row : IsNonNegativeInteger(RawId(row))))

\* C3 amended: after preprocess_data every remaining identifier is an integer;
\* the records dropped are exactly those whose identifier is blank or text that
\* is no number; a numeric identifier is kept, negative ones included, with its
\* fraction cut toward zero.
C3_IntegersAfterCleaning ==
    Cleaned =>
        /\ Len(df_requerimentos.rows) = Len(Coercible)
        /\ \A r \in 1..Len(df_requerimentos.rows) :
              LET out == df_requerimentos.rows[r][1]
                  in == ValueOf(RawId(Coercible[r]))
              IN  /\ out.k = "num" /\ out.t % 10 = 0
                  /\ Abs(out.t) <= Abs(in)
                  /\ Abs(in) - Abs(out.t) < 10
                  /\ (out.t > 0 => in > 0) /\ (out.t < 0 => in < 0)

\* a cleaned table that kept a negative and a fractional identifier and lost a text
C3_Witness ==
    /\ Cleaned
    /\ \E r \in 1..Len(df_requerimentos.rows) : df_requerimentos.rows[r][1] = Num(-10)
    /\ \E r \in 1..Len(Coercible) :
          /\ RawId(Coercible[r]) = Num(25)
          /\ df_requerimentos.rows[r][1] = Num(20)
    /\ Len(Coercible) < Len(file_requerimentos.rows)

C10_Idempotent ==
    [][pc = "rename" /\ pc' = "preprocessed_again" =>
          /\ df_requerimentos' = df_requerimentos
          /\ ui' = ui
          /\ raised' = NoException]_vars

\* a second pass over a table whose first pass dropped a row and cut a fraction
C10_Witness ==
    /\ pc = "preprocessed_again"
    /\ Len(df_requerimentos.rows) < Len(file_requerimentos.rows)
    /\ \E r \in 1..Len(file_requerimentos.rows) : RawId(file_requerimentos.rows[r]) = Num(5)
    /\ Len(df_requerimentos.rows) >= 2

-----------------------------------------------------------------------------
(* Normalization and validation on every small choice of headers: SpecHeaders *)

HeaderStyles == {"upper", "lower", "padded", "padded_upper"}

\* how a field appears in a file: not at all, as required, typed in the style of
\* the file, or (the identifier) as the variant "numero usp" in that style
OptionsOf(field) ==
    IF field = "nusp" THEN {"absent", "exact", "styled", "synonym"}
    ELSE {"absent", "exact", "styled"}

Choices(fields) ==
    {ch \in [Range(fields) -> {"absent", "exact", "styled", "synonym"}] :
        \A f \in Range(fields) : ch[f] \in OptionsOf(f)}

\* the layout of the fields chosen, in the order of fields
LayoutOf(fields, ch, style) ==
    LET present == SelectSeq(fields, LAMBDA f : ch[f] # "absent")
    IN  [i \in 1..Len(present) |->
            CASE ch[present[i]] = "exact" -> Col(present[i], FieldLabel(present[i]), "exact")
              [] ch[present[i]] = "styled" -> Col(present[i], FieldLabel(present[i]), style)
              [] ch[present[i]] = "synonym" -> Col(present[i], T_numero_usp, style)]

AllAs(fields, option) == [f \in Range(fields) |-> option]

\* a few choices for one file, combined with every choice for the other
ConsFew ==
    { [AllAs(ConsFields, "exact") EXCEPT !["nusp"] = "synonym"],
      [AllAs(ConsFields, "exact") EXCEPT !["parecer"] = "absent", !["Ano"] = "absent"] }

ReqFew ==
    { AllAs(ReqFields, "exact"),
      [AllAs(ReqFields, "exact") EXCEPT !["Nome completo"] = "absent"] }

\* the historical file also has a column the table does not know, the current
\* file the optional observation column
HeaderInputs ==
    { <<File("consolidado.xlsx", "xlsx",
             LayoutOf(ConsFields, p[1], style) \o <<Col("curso", T_curso, style)>>,
             RowSpecs(<<Num(10)>>)),
        File("requerimentos.csv", "csv",
             LayoutOf(ReqFields, p[2], style) \o <<Col("obs_sg", T_observacao_sg, style)>>,
             RowSpecs(<<Num(10)>>))>> :
        style \in HeaderStyles,
        p \in (Choices(ConsFields) \X ReqFew) \cup (ConsFew \X Choices(ReqFields)) }

InitHeaders == \E files \in HeaderInputs : Entering(files)

NextHeaders ==
    \/ Begin
    \/ LoadConsolidado
    \/ LoadRequerimentos
    \/ CheckLoaded
    \/ NormalizeConsolidado
    \/ NormalizeRequerimentos
    \/ Validate
    \/ HandleValueError

SpecHeaders == InitHeaders /\ [][NextHeaders]_vars

\* find_and_rename_nusp_column has returned, or raised, for the file
NormalizedConsolidado == "find_and_rename_nusp_column(consolidado)" \in Range(calls)

NormalizedRequerimentos == "find_and_rename_nusp_column(requerimentos)" \in Range(calls)

\* validate_dataframes has been called
ValidateRan == "validate_dataframes" \in Range(calls)

\* the canonical fields of the claim
ClaimedFields ==
    {"nusp", "disciplina", "Ano", "Semestre", "problema", "parecer", "Nome completo"}

\* the fields with an entry in the table of accepted spellings, and their names
TableFields == {"nusp", "problema", "Nome completo", "obs_sg"}

StandardName(field) == IF field = "obs_sg" THEN T_obs_sg ELSE FieldLabel(field)

\* a file holds every field in fields
HoldsAll(file, fields) ==
    \A f \in Range(fields) : \E i \in 1..Len(file.fields) : file.fields[i].field = f

\* the headers of the fields outside the table are typed exactly as required
ExactOutsideTable(file) ==
    \A i \in 1..Len(file.fields) :
        file.fields[i].field \in ClaimedFields \ TableFields
            => file.columns[i] = FieldLabel(file.fields[i].field)

\* every column written from one of fields bears now the name given by name(_),
\* every other column the header it had in the file
RenamedWithin(file, df, fields, name(_)) ==
    \A i \in 1..Len(file.fields) :
        IF file.fields[i].field \in fields
        THEN df.columns[i] = name(file.fields[i].field)
        ELSE df.columns[i] = file.columns[i]

\* C4 as claimed: a header that is an accepted spelling of any of the seven
\* canonical fields, up to case and surrounding whitespace, is renamed to the
\* canonical name, other columns keep their header, and files holding every
\* required field in such a spelling pass validate_dataframes.
C4_AllFieldsInsensitive ==
    /\ NormalizedConsolidado =>
          RenamedWithin(file_consolidado, df_consolidado, ClaimedFields, FieldLabel)
    /\ NormalizedRequerimentos =>
          RenamedWithin(file_requerimentos, df_requerimentos, ClaimedFields, FieldLabel)
    /\ (ValidateRan /\ HoldsAll(file_consolidado, ConsFields)
           /\ HoldsAll(file_requerimentos, ReqFields))
          => raised = NoException

\* C4 amended: the renaming is insensitive to case and surrounding whitespace for
\* the fields of the table (identifier, issue type, full name and the optional
\* columns); a header of course, year, term or decision is never renamed, like
\* every header matching no variant; files holding every required field pass
\* validate_dataframes when course, year, term and decision are typed exactly
\* 'disciplina', 'Ano', 'Semestre', 'parecer'.
C4_TableFieldsInsensitive ==
    /\ NormalizedConsolidado =>
          RenamedWithin(file_consolidado, df_consolidado, TableFields, StandardName)
    /\ NormalizedRequerimentos =>
          RenamedWithin(file_requerimentos, df_requerimentos, TableFields, StandardName)
    /\ (ValidateRan /\ HoldsAll(file_consolidado, ConsFields)
           /\ HoldsAll(file_requerimentos, ReqFields)
           /\ ExactOutsideTable(file_consolidado))
          => raised = NoException

\* validation passed on files whose identifier, issue type and name headers were
\* typed with padding and in upper case
C4_Witness ==
    /\ ValidateRan
    /\ raised = NoException
    /\ \E i \in 1..Len(file_consolidado.fields) :
          /\ file_consolidado.fields[i] = Col("nusp", T_numero_usp, "padded_upper")
          /\ df_consolidado.columns[i] = T_nusp
    /\ \E i \in 1..Len(file_requerimentos.fields) :
          /\ file_requerimentos.fields[i] = Col("Nome completo", T_Nome_completo, "padded_upper")
          /\ df_requerimentos.columns[i] = T_Nome_completo
    /\ \E i \in 1..Len(file_consolidado.fields) :
          /\ file_consolidado.fields[i].field = "curso"
          /\ df_consolidado.columns[i] = file_consolidado.columns[i]

\* the required fields as the claim lists them
ClaimedRequiredConsolidado ==
    {T_nusp, T_disciplina, T_Ano, T_Semestre, T_problema, T_parecer}

ClaimedRequiredRequerimentos == {T_nusp, T_Nome_completo, T_problema}

Absent(required, df) == {c \in required : c \notin Range(df.columns)}

\* the error lists for the file exactly the columns in absent, or, when absent is
\* empty, does not mention the file
ListsExactly(msg, arquivo, absent) ==
    LET entries == {i \in 1..Len(msg) : msg[i].arquivo = arquivo}
    IN  IF absent = {} THEN entries = {}
        ELSE /\ Cardinality(entries) = 1
             /\ \A i \in entries :
                   /\ Range(msg[i].colunas) = absent
                   /\ Len(msg[i].colunas) = Cardinality(absent)

C5_Outcome ==
    ValidateRan =>
        LET absentC == Absent(ClaimedRequiredConsolidado, df_consolidado)
            absentR == Absent(ClaimedRequiredRequerimentos, df_requerimentos)
        IN  /\ raised.type = "ValueError" <=> (absentC # {} \/ absentR # {})
            /\ raised.type = "ValueError" =>
                  /\ ListsExactly(raised.msg, "consolidado", absentC)
                  /\ ListsExactly(raised.msg, "requerimentos", absentR)
                  /\ \A i \in 1..Len(raised.msg) :
                        raised.msg[i].arquivo \in {"consolidado", "requerimentos"}

\* C5: validate_dataframes raises iff a required column is absent from one of the
\* two datasets; the error lists, for each deficient dataset and only for those,
\* exactly its absent required columns, both datasets in the one error when both
\* are deficient; and the call changes neither dataset.
C5_ValidationReport ==
    /\ []C5_Outcome
    /\ [][pc = "validate" =>
             df_consolidado' = df_consolidado /\ df_requerimentos' = df_requerimentos]_vars

\* both files deficient: one error with two entries, two columns absent from the
\* historical file
C5_Witness ==
    /\ ValidateRan
    /\ raised.type = "ValueError"
    /\ Len(raised.msg) = 2
    /\ Cardinality(Absent(ClaimedRequiredConsolidado, df_consolidado)) = 2
    /\ Cardinality(Absent(ClaimedRequiredRequerimentos, df_requerimentos)) = 1

-----------------------------------------------------------------------------
(* The overview on every small table of historical decisions: SpecOverview *)

T_NEGADO == <<"N", "E", "G", "A", "D", "O">>

T_Indeferido == <<"I", "n", "d", "e", "f", "e", "r", "i", "d", "o">>

T_Aprovado_Negado ==
    <<"A", "p", "r", "o", "v", "a", "d", "o", "/", "N", "e", "g", "a", "d", "o">>

T_Pendente == <<"P", "e", "n", "d", "e", "n", "t", "e">>

\* decision cells: blank, approvals, denials, a text with both words, a text with
\* none, and a number
DecisionCells ==
    {NaN, Txt(T_Aprovado), Txt(T_NEGADO), Txt(T_Indeferido), Txt(T_Aprovado_Negado),
     Txt(T_Pendente), Num(70)}

\* historical records of student 1 with the decisions given
DecisionSpecs(decisions) ==
    [r \in 1..Len(decisions) |->
        [id |-> Num(10), parecer |-> decisions[r], nome |-> Txt(NatText(r))]]

OverviewInputs ==
    { <<File("consolidado.xlsx", "xlsx", ConsExact, DecisionSpecs(ds)),
        File("requerimentos.csv", "csv", ReqExact, RowSpecs(ids))>> :
        ds \in SeqsUpTo(DecisionCells, MaxOverviewRows),
        ids \in {<< >>, <<Num(10)>>, <<Num(20)>>, <<Num(10), Num(20)>>, <<Txt(T_abc)>>} }

InitOverview == \E files \in OverviewInputs : Entering(files)

NextOverview ==
    \/ Begin
    \/ LoadConsolidado
    \/ LoadRequerimentos
    \/ CheckLoaded
    \/ NormalizeConsolidado
    \/ NormalizeRequerimentos
    \/ Validate
    \/ DropNomeCompleto
    \/ PreprocessConsolidado
    \/ PreprocessRequerimentos
    \/ RenameColumns
    \/ Reconcile
    \/ DisplayOverview
    \/ DisplayStudentsWithHistory
    \/ DisplayNewStudents
    \/ HandleException

SpecOverview == InitOverview /\ [][NextOverview]_vars

\* what the claim makes of each decision cell
ExpectedClass(cell) ==
    CASE cell = Txt(T_Aprovado) -> "approved"
      [] cell = Txt(T_NEGADO) -> "denied"
      [] cell = Txt(T_Indeferido) -> "denied"
      [] cell = Txt(T_Aprovado_Negado) -> "denied"
      [] cell = Txt(T_Negado) -> "denied"
      [] OTHER -> "neither"

\* the historical decision cell of every joined row
JoinedDecisions ==
    LET i == CHOOSE i \in 1..Len(alunos_com_historico.columns) :
                 alunos_com_historico.columns[i] = T_parecer \o T_historico
    IN  [r \in 1..Len(alunos_com_historico.rows) |-> alunos_com_historico.rows[r][i]]

CountClass(class) ==
    Cardinality({r \in DOMAIN JoinedDecisions : ExpectedClass(JoinedDecisions[r]) = class})

\* both tabs have been rendered over a join result with rows
Classified == pc \in {"tab_new_students", "done"} /\ Len(alunos_com_historico.rows) > 0

\* C8: a joined decision counts as denied iff its text holds "indeferido" or
\* "negado" in any case, as approved iff it holds "aprovado" and is not denied,
\* never as both; a blank decision or one with none of the words counts as neither
\* and is outside the denominator of the approval rate; format_parecer gives the
\* denial icon and the approval icon to the same decisions.
C8_DenialPrecedence ==
    Classified =>
        /\ \A r \in DOMAIN JoinedDecisions :
              LET class == ExpectedClass(JoinedDecisions[r])
              IN  /\ overview.negados[r] <=> class = "denied"
                  /\ overview.aprovados[r] <=> class = "approved"
                  /\ ~(overview.negados[r] /\ overview.aprovados[r])
                  /\ historico_formatado[r].icon = "X" <=> class = "denied"
                  /\ historico_formatado[r].icon = "V" <=> class = "approved"
        /\ LET denominator == CountClass("approved") + CountClass("denied")
           IN  overview.taxa_aprovacao =
                  IF denominator > 0
                  THEN [fault |-> FALSE,
                        permille |-> (CountClass("approved") * 1000) \div denominator]
                  ELSE Zero

\* three joined rows: an approval, a text with both words and a blank; rate 50%
C8_Witness ==
    /\ Classified
    /\ JoinedDecisions = <<Txt(T_Aprovado), Txt(T_Aprovado_Negado), NaN>>
    /\ overview.taxa_aprovacao.permille = 500

\* display_overview has been called
OverviewCalled == overview.done

\* no joined decision is approved or denied
AllUnclassified ==
    /\ Len(alunos_com_historico.rows) > 0
    /\ CountClass("approved") + CountClass("denied") = 0

\* C9: neither percentage divides by zero; the history percentage is 0 when there
\* is no current identifier, the approval rate is 0 when no joined decision is
\* approved or denied, for every input.
C9_NoDivisionByZero ==
    OverviewCalled =>
        /\ ~overview.percentual_historico.fault
        /\ Identifiers(df_requerimentos) = {} => overview.percentual_historico = Zero
        /\ AllUnclassified =>
              /\ overview.raised = NoException
              /\ overview.taxa_aprovacao = Zero

\* joined records whose decisions are all blank, read from a decision column that
\* holds no text: the overview ends in AttributeError instead of a rate of 0
C9_Witness ==
    /\ pc = "error_reported"
    /\ OverviewCalled
    /\ AllUnclassified
    /\ \A r \in DOMAIN JoinedDecisions : JoinedDecisions[r] = NaN
    /\ overview.raised = AttributeError
    /\ ui[Len(ui)].kind = "error"

\* where the rates are evaluated they are free of the division by zero
C9_ZeroWhereEvaluated ==
    (OverviewCalled /\ overview.raised = NoException) =>
        /\ ~overview.percentual_historico.fault
        /\ ~overview.taxa_aprovacao.fault
        /\ Identifiers(df_requerimentos) = {} => overview.percentual_historico = Zero
        /\ AllUnclassified => overview.taxa_aprovacao = Zero

\* the approval rate evaluated to 0 over unclassified decisions of an object column
C9_UnclassifiedEvaluated ==
    /\ OverviewCalled
    /\ overview.raised = NoException
    /\ AllUnclassified
    /\ overview.taxa_aprovacao = Zero

\* the history percentage evaluated to 0 over an empty current dataset
C9_EmptyCurrent ==
    /\ OverviewCalled
    /\ Len(df_requerimentos.rows) = 0
    /\ Len(df_consolidado.rows) > 0
    /\ overview.percentual_historico = Zero

-----------------------------------------------------------------------------
(* Canonical names after find_and_rename_nusp_column *)

CanonicalNames == {rename_map[i].standard_name : i \in DOMAIN rename_map}

\* the positions of the raw headers of a file that match a variation of name
MatchingRaw(file, name) ==
    {i \in 1..Len(file.columns) : actual_renames(file.columns[i]) = name}

\* find_and_rename_nusp_column has returned the historical dataset
ReturnedConsolidado == pc = "normalize_requerimentos"

\* C11: after find_and_rename_nusp_column returns, each canonical name is borne by
\* at most one column, for every set of raw headers; of two raw columns matching
\* the same canonical field only the later one carries the canonical name.
C11_CanonicalNameUnique ==
    ReturnedConsolidado =>
        \A name \in CanonicalNames :
            /\ Cardinality(ColumnPositions(df_consolidado, name)) <= 1
            /\ MatchingRaw(file_consolidado, name) # {}
                  => ColumnPositions(df_consolidado, name)
                        = {SetMax(MatchingRaw(file_consolidado, name))}

\* headers "nusp" and "N USP" in one file: both columns are named nusp on return
C11_Witness ==
    /\ ReturnedConsolidado
    /\ raised = NoException
    /\ Cardinality(MatchingRaw(file_consolidado, T_nusp)) = 2
    /\ ColumnPositions(df_consolidado, T_nusp) = MatchingRaw(file_consolidado, T_nusp)

\* every raw column matching a canonical field carries its name on return, so the
\* name is unique exactly where one raw column matches
C11_EveryMatchRenamed ==
    ReturnedConsolidado =>
        \A name \in CanonicalNames :
            ColumnPositions(df_consolidado, name) = MatchingRaw(file_consolidado, name)

\* the run with two identifier columns ends in the TypeError of preprocess_data
C11_DuplicateEndsInTypeError ==
    /\ pc = "error_reported"
    /\ Cardinality(MatchingRaw(file_consolidado, T_nusp)) = 2
    /\ raised.type = "TypeError"

-----------------------------------------------------------------------------
(* The script's entry point and login_form: SpecGate *)

\* texts typed into the password field
Passwords == {"admin", "segredo", "errada"}

SecretsConfigs == {NoSecretsFile, NoSecretKey, Configured("segredo"), Configured("admin")}

\* st.secrets["passwords"]["senha_mestra"] under the try of login_form: the value;
\* KeyError, caught, gives the default with a warning; without a secrets file the
\* library raises its own error, which the except clause may or may not cover
SecretLookup(config) ==
    CASE config.kind = "configured" ->
            {[raised |-> FALSE, correct_password |-> config.senha_mestra, default |-> FALSE]}
      [] config.kind = "no_key" ->
            {[raised |-> FALSE, correct_password |-> "admin", default |-> TRUE]}
      [] OTHER ->
            {[raised |-> FALSE, correct_password |-> "admin", default |-> TRUE],
             [raised |-> TRUE, correct_password |-> "", default |-> FALSE]}

\* a check that lets every submitted password in
password_accepted_always(password, correct_password) == TRUE

\* password == correct_password
password_accepted(password, correct_password) == password = correct_password

\* the uploads of a session: none yet, or the two files in the required layout
GateInputs ==
    { <<NoFile, NoFile>>,
      <<File("consolidado.xlsx", "xlsx", ConsExact, RowSpecs(<<Num(10)>>)),
        File("requerimentos.csv", "csv", ReqExact, RowSpecs(<<Num(10), Num(20)>>))>> }

\* a script execution starts with nothing computed and nothing rendered
FreshExecution ==
    /\ df_consolidado' = None
    /\ df_requerimentos' = None
    /\ alunos_com_historico' = None
    /\ nusps_com_historico' = {}
    /\ df_novos' = None
    /\ overview' = NoOverview
    /\ historico_formatado' = << >>
    /\ ui' = << >>
    /\ raised' = NoException
    /\ calls' = << >>

InitGate ==
    /\ pc = "main"
    /\ file_consolidado = NoFile
    /\ file_requerimentos = NoFile
    /\ df_consolidado = None
    /\ df_requerimentos = None
    /\ alunos_com_historico = None
    /\ nusps_com_historico = {}
    /\ df_novos = None
    /\ overview = NoOverview
    /\ historico_formatado = << >>
    /\ ui = << >>
    /\ raised = NoException
    /\ calls = << >>
    /\ session_state = EmptySession
    /\ secrets \in SecretsConfigs
    /\ submission = NoSubmission

\* lines 423-424
MainScript ==
    /\ pc = "main"
    /\ session_state' = IF "password_correct" \notin DOMAIN session_state
                        THEN SetKey(session_state, "password_correct", FALSE)
                        ELSE session_state
    /\ pc' = "dispatch"
    /\ UNCHANGED <<file_consolidado, file_requerimentos, df_consolidado, df_requerimentos,
                   alunos_com_historico, nusps_com_historico, df_novos, overview,
                   historico_formatado, ui, raised, calls, secrets, submission>>

\* lines 426-429; the uploads are what the session's file_uploader widgets hold
Dispatch ==
    /\ pc = "dispatch"
    /\ \E files \in GateInputs :
          IF ~session_state["password_correct"]
          THEN /\ pc' = "login_form"
               /\ UNCHANGED <<file_consolidado, file_requerimentos>>
          ELSE /\ pc' = "run_app"
               /\ file_consolidado' = files[1]
               /\ file_requerimentos' = files[2]
    /\ UNCHANGED <<df_consolidado, df_requerimentos, alunos_com_historico,
                   nusps_com_historico, df_novos, overview, historico_formatado, ui,
                   raised, calls, session_state, secrets, submission>>

\* lines 400-420; st.rerun() ends this execution and starts the next one
login_form ==
    /\ pc = "login_form"
    /\ \E found \in SecretLookup(secrets) :
          LET shown == IF found.default
                       THEN Append(ui, [kind |-> "warning", texto |-> "Usando senha padrao"])
                       ELSE ui
          IN  IF found.raised
              THEN /\ pc' = "script_error"
                   /\ ui' = Append(ui, [kind |-> "exception", texto |-> "secrets"])
                   /\ UNCHANGED <<session_state, submission, calls>>
              ELSE IF submission.submitted
                      /\ password_accepted(submission.password, found.correct_password)
              THEN /\ session_state' = SetKey(session_state, "password_correct", TRUE)
                   /\ pc' = "main"
                   /\ ui' = << >>
                   /\ submission' = NoSubmission
                   /\ calls' = calls
              ELSE /\ pc' = "login_shown"
                   /\ ui' = IF submission.submitted
                            THEN Append(shown, [kind |-> "error", texto |-> "Senha incorreta"])
                            ELSE shown
                   /\ UNCHANGED <<session_state, submission, calls>>
    /\ UNCHANGED <<file_consolidado, file_requerimentos, df_consolidado, df_requerimentos,
                   alunos_com_historico, nusps_com_historico, df_novos, overview,
                   historico_formatado, raised, secrets>>

\* the user types a password and presses "Entrar": the script runs again
Submit ==
    /\ pc = "login_shown"
    /\ \E password \in Passwords : submission' = [submitted |-> TRUE, password |-> password]
    /\ pc' = "main"
    /\ FreshExecution
    /\ UNCHANGED <<file_consolidado, file_requerimentos, session_state, secrets>>

\* any other interaction with the page: the script runs again
Rerun ==
    /\ pc \in {"login_shown", "script_error", "welcome", "done", "stopped", "error_reported"}
    /\ submission' = NoSubmission
    /\ pc' = "main"
    /\ FreshExecution
    /\ UNCHANGED <<file_consolidado, file_requerimentos, session_state, secrets>>

NextGate ==
    \/ MainScript
    \/ Dispatch
    \/ login_form
    \/ Submit
    \/ Rerun
    \/ Begin
    \/ LoadConsolidado
    \/ LoadRequerimentos
    \/ CheckLoaded
    \/ NormalizeConsolidado
    \/ NormalizeRequerimentos
    \/ Validate
    \/ DropNomeCompleto
    \/ PreprocessConsolidado
    \/ PreprocessRequerimentos
    \/ RenameColumns
    \/ Reconcile
    \/ DisplayOverview
    \/ DisplayStudentsWithHistory
    \/ DisplayNewStudents

SpecGate == InitGate /\ [][NextGate]_vars

\* the flag of the session is true
Flag == "password_correct" \in DOMAIN session_state /\ session_state["password_correct"]

\* the password that opens the session: the configured secret, else "admin"
ExpectedPassword == IF secrets.kind = "configured" THEN secrets.senha_mestra ELSE "admin"

\* the script is in the login branch / inside run_app or past it
InLogin == pc \in {"login_form", "login_shown", "script_error"}

InRunApp == pc \notin {"main", "dispatch", "login_form", "login_shown", "script_error"}

\* C12: in a session the flag starts false, becomes true only by a login-form
\* submission whose password is the configured secret (or "admin" when none is
\* configured), is left alone by a wrong password, and never returns to false;
\* run_app, with its loads and its join, runs only while the flag is true, and
\* login_form only while it is false.
C12_AccessGate ==
    /\ ~Flag
    /\ [][("password_correct" \notin DOMAIN session_state
             /\ "password_correct" \in DOMAIN session_state')
            => ~session_state'["password_correct"]]_vars
    /\ [][(~Flag /\ Flag')
            => /\ pc = "login_form"
               /\ submission.submitted
               /\ submission.password = ExpectedPassword]_vars
    /\ [][(pc = "login_form" /\ submission.submitted
             /\ submission.password # ExpectedPassword)
            => session_state' = session_state]_vars
    /\ [][Flag => Flag']_vars
    /\ [](InRunApp => Flag)
    /\ [](calls # << >> => Flag)
    /\ [](InLogin => ~Flag)

\* with the secret configured, run_app has joined the uploads of a session whose
\* flag is true
C12_Witness ==
    /\ pc = "done"
    /\ Flag
    /\ secrets = Configured("segredo")
    /\ "merge" \in Range(calls)

\* a wrong password was submitted: the error is shown and the flag is still false
C12_WrongPassword ==
    /\ pc = "login_shown"
    /\ submission.submitted
    /\ submission.password # ExpectedPassword
    /\ ~Flag
    /\ ui # << >> /\ ui[Len(ui)].kind = "error"

====
